---- MODULE Spec2Model ----
(***************************************************************************)
(* A model of the wasm-sorter kernels of src/wasm-sorter/src/lib.rs:       *)
(* sort_array, sort_numbers, mandelbrot_iterations, mandelbrot_set,        *)
(* prime_sieve, fibonacci_sequence, monte_carlo_pi and hash_computation.   *)
(*                                                                         *)
(* Each kernel has its own variables, its own actions and its own          *)
(* specification; a specification leaves the other kernels' variables at   *)
(* their initial values.  Sequences are 1-based here and 0-based in the    *)
(* source: position k of a sequence is index k-1 of the Vec or Array.      *)
(***************************************************************************)
EXTENDS Integers, Sequences, FiniteSets, TLC

VARIABLES
    \* the build: TRUE when an integer overflow panics (overflow-checks, as in
    \* the dev profile), FALSE when it wraps (as in the release profile)
    overflow_checks,
    \* ---- sort_array (lines 21-64)
    array,          \* the argument `array`
    items,          \* the Vec<(JsValue, usize)> being sorted
    sort_pc,        \* "idle", "compare", "sorted", "done"
    sort_i,         \* position of the element insert_tail is inserting
    sort_gap,       \* position of the gap the element will be written to
    sort_tmp,       \* the element held out of the slice while it is inserted
    sort_ret,       \* the returned Result<Array, JsValue>
    last_call,      \* history: the last invocation of the predicate
    all_equal,      \* history: every result so far was 0, a non-number or a failure
    any_failed,     \* history: some invocation of the predicate failed
    unequal,        \* history: original indices that took part in a Less/Greater outcome
    \* ---- sort_numbers (lines 67-93)
    numbers,        \* the argument `numbers`
    ascending,      \* the argument `ascending`
    nums,           \* the Vec<f64> being sorted
    num_pc,         \* "idle", "sort", "done"
    num_i,          \* position of the element insert_tail inserts next
    num_ret,        \* the returned Array
    \* ---- prime_sieve (lines 242-273)
    limit,          \* the argument `limit`
    is_prime,       \* the sieve table, a function on 0..len-1
    sqrt_limit,
    sieve_i,        \* the `i` of the loop the kernel is in
    sieve_j,        \* the `j` of the inner loop
    primes,         \* the Vec<u32> being filled
    sieve_pc,       \* "idle", "outer", "inner", "collect", "done", "panicked"
    sieve_fault,    \* "none", or the fault that ended or derailed the call
    sieve_ret,      \* the returned Vec<u32>
    \* ---- mandelbrot_iterations (lines 195-208)
    c_real, c_imag, max_iterations,     \* the arguments
    z_real, z_imag, iteration,          \* the locals
    mandel_steps,   \* history: the rounds of the loop taken in this call
    mandel_pc,      \* "idle", "loop", "done"
    mandel_ret,     \* the returned u32
    \* ---- mandelbrot_set (lines 211-239)
    width, height, raster_max, zoom, center_x, center_y,    \* the arguments
    raster_x, raster_y,     \* the `x` and `y` of the loops
    raster_cap,     \* the capacity asked of Vec::with_capacity
    raster_result,  \* the Vec<u32> `result` being filled
    raster_pc,      \* "idle", "loop", "done", "panicked"
    raster_fault,   \* "none", or the overflow of width * height
    raster_ret,     \* the returned Vec<u32>
    \* ---- fibonacci_sequence (lines 307-331)
    fib_n,          \* the argument `n`
    fib,            \* the Vec<u64> being filled
    fib_i,          \* the `i` of the loop: the number of terms there are
    fib_pc,         \* "idle", "loop", "done"
    fib_ret,        \* the returned Vec<u64>
    \* ---- monte_carlo_pi (lines 133-192)
    mc_iterations,  \* the argument `iterations`
    mc_i,           \* the `i` of the loop
    inside_circle, rng_state,           \* the locals
    mc_pc,          \* "idle", "loop", "done"
    mc_ret,         \* the returned f64, as <<numerator, denominator>>
    \* ---- hash_computation (lines 334-352)
    hash_data, hash_iterations,         \* the arguments
    hash,           \* the local `hash`
    hash_round,     \* the rounds of the outer loop that are over
    hash_pos,       \* position of the next byte of the inner loop
    hash_pc,        \* "idle", "loop", "done"
    hash_ret,       \* the returned u32
    \* ---- history of the calls of monte_carlo_pi and hash_computation
    seen            \* one remembered call and its result

sort_vars == <<array, items, sort_pc, sort_i, sort_gap, sort_tmp, sort_ret,
               last_call, all_equal, any_failed, unequal>>
num_vars == <<numbers, ascending, nums, num_pc, num_i, num_ret>>
sieve_vars == <<limit, is_prime, sqrt_limit, sieve_i, sieve_j, primes, sieve_pc,
                sieve_fault, sieve_ret>>
mandel_vars == <<c_real, c_imag, max_iterations, z_real, z_imag, iteration,
                 mandel_steps, mandel_pc, mandel_ret>>
raster_vars == <<width, height, raster_max, zoom, center_x, center_y, raster_x,
                 raster_y, raster_cap, raster_result, raster_pc, raster_fault, raster_ret>>

fib_vars == <<fib_n, fib, fib_i, fib_pc, fib_ret>>
mc_vars == <<mc_iterations, mc_i, inside_circle, rng_state, mc_pc, mc_ret>>
hash_vars == <<hash_data, hash_iterations, hash, hash_round, hash_pos, hash_pc,
               hash_ret>>
calls_vars == <<mc_vars, hash_vars, seen>>

vars == <<overflow_checks, sort_vars, num_vars, sieve_vars, mandel_vars, raster_vars,
          fib_vars, calls_vars>>

\* what an action of one kernel leaves alone: the other kernels and the build
not_sort == <<overflow_checks, num_vars, sieve_vars, mandel_vars, raster_vars,
              fib_vars, calls_vars>>
not_num == <<overflow_checks, sort_vars, sieve_vars, mandel_vars, raster_vars,
             fib_vars, calls_vars>>
not_sieve == <<overflow_checks, sort_vars, num_vars, mandel_vars, raster_vars,
               fib_vars, calls_vars>>
not_mandel == <<overflow_checks, sort_vars, num_vars, sieve_vars, raster_vars,
                fib_vars, calls_vars>>
not_raster == <<overflow_checks, sort_vars, num_vars, sieve_vars, mandel_vars,
                fib_vars, calls_vars>>
not_fib == <<overflow_checks, sort_vars, num_vars, sieve_vars, mandel_vars,
             raster_vars, calls_vars>>
not_calls == <<overflow_checks, sort_vars, num_vars, sieve_vars, mandel_vars,
               raster_vars, fib_vars>>


(***************************************************************************)
(* The f64 of mandelbrot_iterations and mandelbrot_set.                    *)
(*                                                                         *)
(* The inputs of the model are dyadic rationals num / 2^exp of a few bits, *)
(* on which the f64 sums, differences and products of lines 200-203 and    *)
(* 230-231, and the divisions by a power of two of lines 230-231, are      *)
(* exact: the model computes them exactly, on normalised dyadics.          *)
(***************************************************************************)
RECURSIVE Pow2(_)
Pow2(k) == IF k = 0 THEN 1 ELSE 2 * Pow2(k - 1)

RECURSIVE Log2(_)
Log2(n) == IF n <= 1 THEN 0 ELSE 1 + Log2(n \div 2)

IsPow2(n) == n >= 1 /\ Pow2(Log2(n)) = n

\* num / 2^exp with the fraction reduced
RECURSIVE Dy(_, _)
Dy(num, exp) ==
    IF exp > 0 /\ num % 2 = 0 THEN Dy(num \div 2, exp - 1)
    ELSE [num |-> num, exp |-> exp]

\* `n as f64` of an integer n
F64(n) == Dy(n, 0)

Max(a, b) == IF a >= b THEN a ELSE b

\* the numerator of a over the denominator 2^exp, exp >= a.exp
Scaled(a, exp) == a.num * Pow2(exp - a.exp)

DyAdd(a, b) == Dy(Scaled(a, Max(a.exp, b.exp)) + Scaled(b, Max(a.exp, b.exp)),
                  Max(a.exp, b.exp))
DySub(a, b) == Dy(Scaled(a, Max(a.exp, b.exp)) - Scaled(b, Max(a.exp, b.exp)),
                  Max(a.exp, b.exp))
DyMul(a, b) == Dy(a.num * b.num, a.exp + b.exp)
DyLeq(a, b) == Scaled(a, Max(a.exp, b.exp)) <= Scaled(b, Max(a.exp, b.exp))

\* a / b for a divisor that is a power of two, 2^k or 1 / 2^k
DyDiv(a, b) ==
    IF b.exp > 0 THEN Dy(a.num * Pow2(b.exp), a.exp)
    ELSE Dy(a.num, a.exp + Log2(b.num))

(***************************************************************************)
(* The u32 of hash_computation and the u64 of fibonacci_sequence and       *)
(* monte_carlo_pi, at their full width: a word is the sequence of its      *)
(* bytes, least significant first (4 bytes for a u32, 8 for a u64).        *)
(***************************************************************************)
\* the n bytes of the natural number v (v below 2^31)
RECURSIVE Bytes(_, _)
Bytes(v, n) == IF n = 0 THEN <<>> ELSE <<v % 256>> \o Bytes(v \div 256, n - 1)

U32Word(v) == Bytes(v, 4)
U64Word(v) == Bytes(v, 8)

ByteAt(a, k) == IF k \in 1..Len(a) THEN a[k] ELSE 0

\* a + b + carry from byte k on, the carry out of the last byte dropped
RECURSIVE AddFrom(_, _, _, _)
AddFrom(a, b, k, carry) ==
    IF k > Len(a) THEN <<>>
    ELSE <<(a[k] + b[k] + carry) % 256>>
         \o AddFrom(a, b, k + 1, (a[k] + b[k] + carry) \div 256)

\* the carry out of the last byte of a + b
RECURSIVE CarryOut(_, _, _, _)
CarryOut(a, b, k, carry) ==
    IF k > Len(a) THEN carry
    ELSE CarryOut(a, b, k + 1, (a[k] + b[k] + carry) \div 256)

\* u32::wrapping_add, u64::wrapping_add: the sum modulo 2^(8 * Len(a))
wrapping_add(a, b) == AddFrom(a, b, 1, 0)

\* the sum of the products of the bytes that make byte k of a * b
RECURSIVE ColumnSum(_, _, _, _)
ColumnSum(a, b, k, j) ==
    IF j > k THEN 0 ELSE a[j] * b[k + 1 - j] + ColumnSum(a, b, k, j + 1)

RECURSIVE MulFrom(_, _, _, _)
MulFrom(a, b, k, carry) ==
    IF k > Len(a) THEN <<>>
    ELSE <<(ColumnSum(a, b, k, 1) + carry) % 256>>
         \o MulFrom(a, b, k + 1, (ColumnSum(a, b, k, 1) + carry) \div 256)

\* u32::wrapping_mul, u64::wrapping_mul: the product modulo 2^(8 * Len(a))
wrapping_mul(a, b) == MulFrom(a, b, 1, 0)

\* the exclusive or of two naturals
RECURSIVE XorNat(_, _)
XorNat(x, y) ==
    IF x = 0 THEN y
    ELSE IF y = 0 THEN x
    ELSE ((x + y) % 2) + 2 * XorNat(x \div 2, y \div 2)

\* a ^ b
Xor(a, b) == [k \in 1..Len(a) |-> XorNat(a[k], b[k])]

\* a >> bits
Shr(a, bits) ==
    [k \in 1..Len(a) |->
        (ByteAt(a, k + (bits \div 8)) \div Pow2(bits % 8))
        + (ByteAt(a, k + (bits \div 8) + 1) % Pow2(bits % 8)) * Pow2(8 - (bits % 8))]

\* a <= b, for words of the same length
RECURSIVE LeqFrom(_, _, _)
LeqFrom(a, b, k) ==
    IF k = 0 THEN TRUE
    ELSE IF a[k] # b[k] THEN a[k] < b[k]
    ELSE LeqFrom(a, b, k - 1)

WordLeq(a, b) == LeqFrom(a, b, Len(a))

(***************************************************************************)
(* Bounds of sort_array's inputs.                                          *)
(***************************************************************************)
\* longest array handed to sort_array
MaxLen == 3
\* the opaque values of sort_array's arrays are 1..MaxVal
MaxVal == 2
\* the callback's numeric results are -MaxNum..MaxNum (and NaN)
MaxNum == 1

(***************************************************************************)
(* JavaScript values as far as the kernels look at them: as_f64 asks       *)
(* whether the value is a number (NaN is one).                             *)
(***************************************************************************)
JsNumber(v) == [type |-> "number", nan |-> FALSE, val |-> v]
JsNaN == [type |-> "number", nan |-> TRUE, val |-> 0]
JsString(s) == [type |-> "string", nan |-> FALSE, val |-> s]
JsUndefined == [type |-> "undefined", nan |-> FALSE, val |-> 0]

\* JsValue::as_f64: Some(f64) for a JS number, None for anything else
as_f64(v) ==
    IF v.type = "number"
    THEN [is_some |-> TRUE, nan |-> v.nan, val |-> v.val]
    ELSE [is_some |-> FALSE, nan |-> FALSE, val |-> 0]

\* f64 comparison: every comparison with NaN is false
F64Lt(a, b) == ~a.nan /\ ~b.nan /\ a.val < b.val
F64Gt(a, b) == ~a.nan /\ ~b.nan /\ a.val > b.val
F64Zero == [is_some |-> TRUE, nan |-> FALSE, val |-> 0]

(***************************************************************************)
(* sort_array                                                              *)
(***************************************************************************)
Values == 1..MaxVal
Arrays == UNION {[1..n -> Values] : n \in 0..MaxLen}

\* what predicate.call2 can give back: Ok(any JS value) or Err(exception)
CallResults ==
    {[ok |-> TRUE, value |-> JsNumber(v)] : v \in (-MaxNum)..MaxNum}
    \cup {[ok |-> TRUE, value |-> JsNaN],
          [ok |-> TRUE, value |-> JsString(0)],
          [ok |-> TRUE, value |-> JsUndefined],
          [ok |-> FALSE, value |-> JsUndefined]}

\* lines 35-50 with Err(_) taken for Less
compare_closure_err_less(result) ==
    IF result.ok
    THEN LET num == as_f64(result.value) IN
         IF num.is_some
         THEN IF F64Lt(num, F64Zero) THEN "Less"
              ELSE IF F64Gt(num, F64Zero) THEN "Greater"
              ELSE "Equal"
         ELSE "Equal"
    ELSE "Less"

\* lines 35-50 with the two numeric branches exchanged
compare_closure_swapped(result) ==
    IF result.ok
    THEN LET num == as_f64(result.value) IN
         IF num.is_some
         THEN IF F64Lt(num, F64Zero) THEN "Greater"
              ELSE IF F64Gt(num, F64Zero) THEN "Less"
              ELSE "Equal"
         ELSE "Equal"
    ELSE "Equal"

\* lines 35-50: the Ordering the closure makes of the predicate's result
compare_closure(result) ==
    IF result.ok
    THEN LET num == as_f64(result.value) IN
         IF num.is_some
         THEN IF F64Lt(num, F64Zero) THEN "Less"
              ELSE IF F64Gt(num, F64Zero) THEN "Greater"
              ELSE "Equal"
         ELSE "Equal"
    ELSE "Equal"

\* lines 27-30 with the loop starting at index 1
ToItemsFromOne(a) ==
    [k \in 1..(Len(a) - 1) |-> [val |-> a[k + 1], idx |-> k]]

\* lines 27-30: every element with its original index
ToItems(a) ==
    [k \in 1..Len(a) |-> [val |-> a[k], idx |-> k - 1]]

\* lines 54-57: the elements without their indices
ToArray(its) ==
    [k \in 1..Len(its) |-> its[k].val]

NoCall == [called |-> FALSE, a |-> 0, b |-> 0,
           result |-> [ok |-> TRUE, value |-> JsUndefined],
           ordering |-> "Equal", shifted |-> FALSE]
NoItem == [val |-> 0, idx |-> 0]
\* the value of sort_ret while no call has returned
NoResult == [ok |-> FALSE, value |-> <<>>]

SortInit ==
    /\ array = <<>>
    /\ items = <<>>
    /\ sort_pc = "idle"
    /\ sort_i = 0
    /\ sort_gap = 0
    /\ sort_tmp = NoItem
    /\ sort_ret = NoResult
    /\ last_call = NoCall
    /\ all_equal = TRUE
    /\ any_failed = FALSE
    /\ unequal = {}

\* lines 21-33: the call, the conversion, and the start of items.sort_by.
\* slice::sort_by on a slice of at most 20 elements is
\* insertion_sort_shift_left(v, 1, is_less): insert_tail for v[..=i], i = 1..len-1,
\* with is_less(a, b) = (compare(a, b) == Less).
\* (A call sets every variable of the kernel, so a call made after a return
\* reaches nothing a first call does not: one call per behaviour is modelled.)
sort_array(a) ==
    /\ sort_pc = "idle"
    /\ array' = a
    /\ items' = ToItems(a)
    /\ sort_i' = 2
    /\ sort_gap' = 2
    /\ sort_tmp' = IF Len(ToItems(a)) >= 2 THEN ToItems(a)[2] ELSE NoItem
    /\ sort_pc' = IF Len(ToItems(a)) >= 2 THEN "compare" ELSE "sorted"
    /\ last_call' = NoCall
    /\ all_equal' = TRUE
    /\ any_failed' = FALSE
    /\ unequal' = {}
    /\ sort_ret' = NoResult
    /\ UNCHANGED not_sort

\* insert_tail has placed the element of position sort_i: on to the next one
SortAdvance(its) ==
    /\ items' = its
    /\ sort_i' = sort_i + 1
    /\ sort_gap' = sort_i + 1
    /\ IF sort_i + 1 <= Len(its)
       THEN sort_tmp' = its[sort_i + 1] /\ sort_pc' = "compare"
       ELSE sort_tmp' = NoItem /\ sort_pc' = "sorted"

\* lines 33-51: one is_less(tmp, v[gap-1]) of insert_tail, that is one call
\* predicate(tmp, v[gap-1]) giving `result`, and what insert_tail does with it
SortCompare(result) ==
    /\ sort_pc = "compare"
    /\ LET other == items[sort_gap - 1]
           ordering == compare_closure(result)
       IN
       /\ all_equal' = (all_equal /\ (~result.ok \/ result.value.type # "number"
                                      \/ (~result.value.nan /\ result.value.val = 0)))
       /\ any_failed' = (any_failed \/ ~result.ok)
       /\ unequal' = IF ordering = "Equal" THEN unequal
                     ELSE unequal \cup {sort_tmp.idx, other.idx}
       /\ IF ordering = "Less"
          THEN LET moved == [items EXCEPT ![sort_gap] = other] IN
               IF sort_gap - 1 = 1
               THEN SortAdvance([moved EXCEPT ![1] = sort_tmp])
               ELSE /\ items' = moved
                    /\ sort_gap' = sort_gap - 1
                    /\ UNCHANGED <<sort_i, sort_tmp, sort_pc>>
          ELSE SortAdvance([items EXCEPT ![sort_gap] = sort_tmp])
       \* history: the call, and whether b now stands right of the slot of a
       /\ last_call' = [called |-> TRUE, a |-> sort_tmp.idx, b |-> other.idx,
                        result |-> result, ordering |-> ordering,
                        shifted |-> (items'[sort_gap].idx = other.idx)]
    /\ UNCHANGED <<array, sort_ret, not_sort>>

\* lines 53-63: the conversion back and the return of Ok(result_array)
SortReturn ==
    /\ sort_pc = "sorted"
    /\ sort_ret' = [ok |-> TRUE, value |-> ToArray(items)]
    /\ sort_pc' = "done"
    /\ UNCHANGED <<array, items, sort_i, sort_gap, sort_tmp, last_call,
                   all_equal, any_failed, unequal, not_sort>>

SortStep ==
    \/ \E result \in CallResults : SortCompare(result)
    \/ SortReturn

(***************************************************************************)
(* Claims about sort_array, checked under SpecSort.                        *)
(***************************************************************************)
Count(s, v) == Cardinality({k \in 1..Len(s) : s[k] = v})

C2_Expected(result) ==
    IF ~result.ok THEN {"Equal"}
    ELSE IF result.value.type # "number" THEN {"Equal"}
    ELSE IF result.value.nan THEN {"Less", "Equal", "Greater"}
    ELSE IF result.value.val < 0 THEN {"Less"}
    ELSE IF result.value.val > 0 THEN {"Greater"}
    ELSE {"Equal"}

Position(its, idx) == CHOOSE k \in 1..Len(its) : its[k].idx = idx

MaxNums == 4
\* the finite numbers of sort_numbers' arrays are 1..MaxNumVal
MaxNumVal == 3

\* the entries of the arrays: finite numbers, NaN, and a string
NumEntries == {JsNumber(v) : v \in 1..MaxNumVal} \cup {JsNaN, JsString(0)}
NumArrays == UNION {[1..n -> NumEntries] : n \in 0..MaxNums}

\* lines 73-77: the entries that are numbers, in their order, as f64
FilterNumbers(a) ==
    LET kept == SelectSeq(a, LAMBDA e : as_f64(e).is_some)
    IN [k \in 1..Len(kept) |-> as_f64(kept[k])]

\* f64::partial_cmp: None when either side is NaN
partial_cmp(a, b) ==
    IF a.nan \/ b.nan THEN "None"
    ELSE IF a.val < b.val THEN "Less"
    ELSE IF a.val > b.val THEN "Greater"
    ELSE "Equal"

\* Option::unwrap_or
unwrap_or(option, default) == IF option = "None" THEN default ELSE option

\* lines 80-84: the closure handed to sort_by, for either value of `ascending`
numbers_closure(a, b, asc) ==
    IF asc THEN unwrap_or(partial_cmp(a, b), "Equal")
    ELSE unwrap_or(partial_cmp(b, a), "Equal")

\* insert_tail of slice::sort_by: tmp moves left past every element it is
\* Less than, and is written to the gap where the shifting stops
RECURSIVE NumSift(_, _, _, _)
NumSift(v, gap, tmp, asc) ==
    IF gap > 1 /\ numbers_closure(tmp, v[gap - 1], asc) = "Less"
    THEN NumSift([v EXCEPT ![gap] = v[gap - 1]], gap - 1, tmp, asc)
    ELSE [v EXCEPT ![gap] = tmp]

\* lines 88-90: JsValue::from_f64 of every element
FromF64(v) ==
    [k \in 1..Len(v) |-> [type |-> "number", nan |-> v[k].nan, val |-> v[k].val]]

NumbersInit ==
    /\ numbers = <<>>
    /\ ascending = TRUE
    /\ nums = <<>>
    /\ num_pc = "idle"
    /\ num_i = 0
    /\ num_ret = <<>>

\* lines 67-77: the call and the conversion that drops what is no number
sort_numbers(a, asc) ==
    /\ num_pc = "idle"
    /\ numbers' = a
    /\ ascending' = asc
    /\ nums' = FilterNumbers(a)
    /\ num_i' = 2
    /\ num_pc' = "sort"
    /\ num_ret' = <<>>
    /\ UNCHANGED not_num

\* lines 80-84: one insert_tail of nums.sort_by (insertion_sort_shift_left)
NumInsert ==
    /\ num_pc = "sort"
    /\ num_i <= Len(nums)
    /\ nums' = NumSift(nums, num_i, nums[num_i], ascending)
    /\ num_i' = num_i + 1
    /\ UNCHANGED <<numbers, ascending, num_pc, num_ret, not_num>>

\* lines 86-92: the conversion back and the return
NumReturn ==
    /\ num_pc = "sort"
    /\ num_i > Len(nums)
    /\ num_ret' = FromF64(nums)
    /\ num_pc' = "done"
    /\ UNCHANGED <<numbers, ascending, nums, num_i, not_num>>

(***************************************************************************)
(* Claims about sort_numbers, checked under SpecNumbers.                   *)
(***************************************************************************)
\* the result holds exactly the numeric entries of the argument: numbers
\* only, and every number (NaN included) as often as in the argument
ExactlyTheNumbers ==
    /\ \A k \in 1..Len(num_ret) : num_ret[k].type = "number"
    /\ \A e \in NumEntries :
         e.type = "number" => Count(num_ret, e) = Count(numbers, e)

\* no later entry is smaller (ascending) or greater (descending) than an
\* earlier one
Ordered(r, asc) ==
    \A j, k \in 1..Len(r) :
        j < k => IF asc THEN ~F64Lt(r[k], r[j]) ELSE ~F64Gt(r[k], r[j])

HasNaN(a) == \E k \in 1..Len(a) : a[k] = JsNaN

\* C7: for every array and either direction the result is exactly the
\* numeric entries, non-decreasing when ascending and non-increasing when
\* descending.
C7_SortedNumbers ==
    num_pc = "done" => ExactlyTheNumbers /\ Ordered(num_ret, ascending)

\* what does hold: the result is always exactly the numeric entries, and it
\* is ordered whenever no entry of the argument is NaN; so
\* sort_numbers([3, 1, "x", 2], true) returns [1, 2, 3]
NumbersSortedWithoutNaN ==
    num_pc = "done" =>
        /\ ExactlyTheNumbers
        /\ ~HasNaN(numbers) => Ordered(num_ret, ascending)
        /\ (numbers = <<JsNumber(3), JsNumber(1), JsString(0), JsNumber(2)>> /\ ascending)
              => num_ret = <<JsNumber(1), JsNumber(2), JsNumber(3)>>

(***************************************************************************)
(* prime_sieve                                                             *)
(*                                                                         *)
(* `limit`, `i` and `j` are u32.  The model narrows the u32 to 0..U32Max   *)
(* (a table of 2^32 entries is out of any model's reach) and keeps what    *)
(* the width does: a sum or product above U32Max panics when the build     *)
(* checks overflow and wraps modulo U32Max + 1 when it does not.           *)
(***************************************************************************)
\* the largest value of the narrowed u32
U32Max == 31

U32 == 0..U32Max
Overflows(v) == v > U32Max
U32Wrap(v) == v % (U32Max + 1)

\* line 253: (limit as f64).sqrt() as u32, the integer square root (the f64
\* square root of a u32 is exact enough for the truncation to give it)
Isqrt(n) == CHOOSE r \in 0..n : r * r <= n /\ (r + 1) * (r + 1) > n

\* vec![true; len]
NewTable(len) == [k \in 0..(len - 1) |-> TRUE]
InTable(table, k) == k \in DOMAIN table

SieveInit ==
    /\ limit = 0
    /\ is_prime = NewTable(0)
    /\ sqrt_limit = 0
    /\ sieve_i = 0
    /\ sieve_j = 0
    /\ primes = <<>>
    /\ sieve_pc = "idle"
    /\ sieve_fault = "none"
    /\ sieve_ret = <<>>

\* the call panics: nothing is returned
SievePanic(fault) ==
    /\ sieve_pc' = "panicked"
    /\ sieve_fault' = fault

\* lines 242-253: the call, the early return, the table and the square root
prime_sieve(l) ==
    /\ sieve_pc = "idle"
    /\ limit' = l
    /\ IF l < 2
       THEN /\ sieve_ret' = <<>>
            /\ sieve_pc' = "done"
            /\ UNCHANGED <<is_prime, sqrt_limit, sieve_i, sieve_j, primes, sieve_fault>>
       ELSE IF Overflows(l + 1) /\ overflow_checks
       THEN /\ SievePanic("attempt to add with overflow: limit + 1")
            /\ UNCHANGED <<is_prime, sqrt_limit, sieve_i, sieve_j, primes, sieve_ret>>
       ELSE LET table == NewTable(U32Wrap(l + 1)) IN
            IF ~InTable(table, 0) \/ ~InTable(table, 1)
            THEN /\ SievePanic("index out of bounds: is_prime[0]")
                 /\ is_prime' = table
                 /\ UNCHANGED <<sqrt_limit, sieve_i, sieve_j, primes, sieve_ret>>
            ELSE /\ is_prime' = [table EXCEPT ![0] = FALSE, ![1] = FALSE]
                 /\ sqrt_limit' = Isqrt(l)
                 /\ sieve_i' = 2
                 /\ sieve_pc' = "outer"
                 /\ UNCHANGED <<sieve_j, primes, sieve_fault, sieve_ret>>
    /\ UNCHANGED not_sieve

\* lines 255-257: an `i` that is still marked prime starts the inner loop at i * i
SieveOuterPrime ==
    /\ sieve_pc = "outer"
    /\ sieve_i <= sqrt_limit
    /\ IF ~InTable(is_prime, sieve_i)
       THEN SievePanic("index out of bounds: is_prime[i]") /\ UNCHANGED sieve_j
       ELSE /\ is_prime[sieve_i]
            /\ IF Overflows(sieve_i * sieve_i) /\ overflow_checks
               THEN /\ SievePanic("attempt to multiply with overflow: i * i")
                    /\ UNCHANGED sieve_j
               ELSE /\ sieve_j' = U32Wrap(sieve_i * sieve_i)
                    /\ sieve_pc' = "inner"
                    /\ sieve_fault' = IF Overflows(sieve_i * sieve_i)
                                      THEN "wrapped: i * i" ELSE sieve_fault
    /\ UNCHANGED <<limit, is_prime, sqrt_limit, sieve_i, primes, sieve_ret, not_sieve>>

\* lines 255-256: an `i` that is marked composite is passed over
SieveOuterSkip ==
    /\ sieve_pc = "outer"
    /\ sieve_i <= sqrt_limit
    /\ InTable(is_prime, sieve_i)
    /\ ~is_prime[sieve_i]
    /\ sieve_i' = sieve_i + 1
    /\ UNCHANGED <<limit, is_prime, sqrt_limit, sieve_j, primes, sieve_pc,
                   sieve_fault, sieve_ret, not_sieve>>

\* lines 255, 265-266: the outer loop ends and the collecting loop starts
SieveOuterEnd ==
    /\ sieve_pc = "outer"
    /\ sieve_i > sqrt_limit
    /\ sieve_i' = 2
    /\ primes' = <<>>
    /\ sieve_pc' = "collect"
    /\ UNCHANGED <<limit, is_prime, sqrt_limit, sieve_j, sieve_fault, sieve_ret,
                   not_sieve>>

\* lines 258-261: one round of the inner loop: j is marked, then j += i
SieveInnerMark ==
    /\ sieve_pc = "inner"
    /\ sieve_j <= limit
    /\ IF ~InTable(is_prime, sieve_j)
       THEN /\ SievePanic("index out of bounds: is_prime[j]")
            /\ UNCHANGED <<is_prime, sieve_j>>
       ELSE /\ is_prime' = [is_prime EXCEPT ![sieve_j] = FALSE]
            /\ IF Overflows(sieve_j + sieve_i) /\ overflow_checks
               THEN /\ SievePanic("attempt to add with overflow: j += i")
                    /\ UNCHANGED sieve_j
               ELSE /\ sieve_j' = U32Wrap(sieve_j + sieve_i)
                    /\ sieve_fault' = IF Overflows(sieve_j + sieve_i)
                                      THEN "wrapped: j += i" ELSE sieve_fault
                    /\ UNCHANGED sieve_pc
    /\ UNCHANGED <<limit, sqrt_limit, sieve_i, primes, sieve_ret, not_sieve>>

\* line 258: the inner loop ends when j has passed limit
SieveInnerEnd ==
    /\ sieve_pc = "inner"
    /\ sieve_j > limit
    /\ sieve_i' = sieve_i + 1
    /\ sieve_pc' = "outer"
    /\ UNCHANGED <<limit, is_prime, sqrt_limit, sieve_j, primes, sieve_fault,
                   sieve_ret, not_sieve>>

\* lines 266-270: one round of the collecting loop over 2..=limit
SieveCollect ==
    /\ sieve_pc = "collect"
    /\ sieve_i <= limit
    /\ IF ~InTable(is_prime, sieve_i)
       THEN SievePanic("index out of bounds: is_prime[i]") /\ UNCHANGED <<primes, sieve_i>>
       ELSE /\ primes' = IF is_prime[sieve_i] THEN Append(primes, sieve_i) ELSE primes
            /\ sieve_i' = sieve_i + 1
            /\ UNCHANGED <<sieve_pc, sieve_fault>>
    /\ UNCHANGED <<limit, is_prime, sqrt_limit, sieve_j, sieve_ret, not_sieve>>

\* lines 266, 272: the range 2..=limit is exhausted and primes is returned
SieveReturn ==
    /\ sieve_pc = "collect"
    /\ sieve_i > limit
    /\ sieve_ret' = primes
    /\ sieve_pc' = "done"
    /\ UNCHANGED <<limit, is_prime, sqrt_limit, sieve_i, sieve_j, primes,
                   sieve_fault, not_sieve>>

(***************************************************************************)
(* Claims about prime_sieve, checked under SpecSieve.                      *)
(***************************************************************************)
IsPrimeNumber(p) == p >= 2 /\ \A d \in 2..(p - 1) : p % d # 0

\* s holds exactly the primes of 2..l, each once, in ascending order
PrimesUpTo(s, l) ==
    /\ \A k \in 1..Len(s) : s[k] \in 2..l /\ IsPrimeNumber(s[k])
    /\ \A p \in 2..l : IsPrimeNumber(p) => \E k \in 1..Len(s) : s[k] = p
    /\ \A j, k \in 1..Len(s) : j < k => s[j] < s[k]

\* C3: for every limit of the u32, the call returns, and what it returns is
\* exactly the primes p with 2 <= p <= limit, each once, ascending (nothing
\* for limit < 2).
C3_PrimesUpToLimit ==
    sieve_pc \in {"done", "panicked"} =>
        /\ sieve_pc = "done"
        /\ PrimesUpTo(sieve_ret, limit)

\* C4: for every limit of the u32, the largest ones included, no step of the
\* call overflows (limit + 1, i * i, j += i), no index leaves the table, and
\* the call does not end in a panic.
C4_NoOverflow ==
    /\ sieve_fault = "none"
    /\ sieve_pc # "panicked"

\* what does hold: a call that returns without an overflow on its way
\* returns exactly the primes up to limit, and below U32Max - 1 no call overflows
SieveCorrectBelowOverflow ==
    /\ (sieve_pc = "done" /\ sieve_fault = "none") => PrimesUpTo(sieve_ret, limit)
    /\ limit < U32Max - 1 => sieve_fault = "none"

(***************************************************************************)
(* mandelbrot_iterations                                                   *)
(***************************************************************************)
\* the points c of the calls have integer coordinates in -MaxCoord..MaxCoord
MaxCoord == 2
\* the largest max_iterations of a call
MaxIter == 100

MandelPoints == {F64(n) : n \in (-MaxCoord)..MaxCoord}

\* line 200 with < 4.0 for <= 4.0
MandelWhileStrict(zr, zi, it, max) ==
    /\ DyAdd(DyMul(zr, zr), DyMul(zi, zi)) # F64(4)
    /\ DyLeq(DyAdd(DyMul(zr, zr), DyMul(zi, zi)), F64(4))
    /\ it < max

\* line 200: the condition of the while loop
MandelWhile(zr, zi, it, max) ==
    /\ DyLeq(DyAdd(DyMul(zr, zr), DyMul(zi, zi)), F64(4))
    /\ it < max

\* line 201: temp, the next z_real
MandelReal(zr, zi, cr) == DyAdd(DySub(DyMul(zr, zr), DyMul(zi, zi)), cr)
\* line 202: the next z_imag
MandelImag(zr, zi, ci) == DyAdd(DyMul(DyMul(F64(2), zr), zi), ci)

MandelInit ==
    /\ c_real = F64(0)
    /\ c_imag = F64(0)
    /\ max_iterations = 0
    /\ z_real = F64(0)
    /\ z_imag = F64(0)
    /\ iteration = 0
    /\ mandel_steps = 0
    /\ mandel_pc = "idle"
    /\ mandel_ret = 0

\* lines 195-198: the call and the three locals
mandelbrot_iterations(cr, ci, max) ==
    /\ mandel_pc = "idle"
    /\ c_real' = cr
    /\ c_imag' = ci
    /\ max_iterations' = max
    /\ z_real' = F64(0)
    /\ z_imag' = F64(0)
    /\ iteration' = 0
    /\ mandel_steps' = 0
    /\ mandel_pc' = "loop"
    /\ mandel_ret' = 0
    /\ UNCHANGED not_mandel

\* lines 200-205: one round of the loop
MandelLoop ==
    /\ mandel_pc = "loop"
    /\ MandelWhile(z_real, z_imag, iteration, max_iterations)
    /\ z_real' = MandelReal(z_real, z_imag, c_real)
    /\ z_imag' = MandelImag(z_real, z_imag, c_imag)
    /\ iteration' = iteration + 1
    /\ mandel_steps' = mandel_steps + 1
    /\ UNCHANGED <<c_real, c_imag, max_iterations, mandel_pc, mandel_ret, not_mandel>>

\* lines 200, 207: the loop ends and `iteration` is returned
MandelReturn ==
    /\ mandel_pc = "loop"
    /\ ~MandelWhile(z_real, z_imag, iteration, max_iterations)
    /\ mandel_ret' = iteration
    /\ mandel_pc' = "done"
    /\ UNCHANGED <<c_real, c_imag, max_iterations, z_real, z_imag, iteration,
                   mandel_steps, not_mandel>>

MandelStep == MandelLoop \/ MandelReturn

\* lines 195-208 as a function: what the call returns
RECURSIVE MandelRun(_, _, _, _, _, _)
MandelRun(zr, zi, it, cr, ci, max) ==
    IF MandelWhile(zr, zi, it, max)
    THEN MandelRun(MandelReal(zr, zi, cr), MandelImag(zr, zi, ci), it + 1, cr, ci, max)
    ELSE it

MandelbrotIterations(cr, ci, max) == MandelRun(F64(0), F64(0), 0, cr, ci, max)

(***************************************************************************)
(* Claims about mandelbrot_iterations, checked under SpecMandel.           *)
(***************************************************************************)
\* the orbit of 0 under z -> z^2 + c for an integer point c, as the pair of
\* its coordinates, kept where it is once it has left |z|^2 <= 4
RECURSIVE Orbit(_, _, _)
Orbit(cr, ci, k) ==
    IF k = 0 THEN <<0, 0>>
    ELSE LET z == Orbit(cr, ci, k - 1) IN
         IF z[1] * z[1] + z[2] * z[2] > 4 THEN z
         ELSE <<z[1] * z[1] - z[2] * z[2] + cr, 2 * z[1] * z[2] + ci>>

Escaped(z) == z[1] * z[1] + z[2] * z[2] > 4

\* C9: the loop takes at most max_iterations steps (its counter is the
\* number of steps taken, never above max_iterations, and while the call
\* runs a step or the return is possible); the count returned is in
\* 0..max_iterations; it is max_iterations when the orbit of 0 stays in
\* |z|^2 <= 4 for those steps, and otherwise the number of steps before
\* |z|^2 first exceeds 4.
C9_EscapeCount ==
    /\ mandel_pc \in {"loop", "done"} =>
         /\ iteration = mandel_steps
         /\ mandel_steps <= max_iterations
    /\ mandel_pc = "loop" => ENABLED MandelStep
    /\ mandel_pc = "done" =>
         /\ mandel_ret \in 0..max_iterations
         /\ \A k \in 0..(mandel_ret - 1) : ~Escaped(Orbit(c_real.num, c_imag.num, k))
         /\ mandel_ret < max_iterations
              => Escaped(Orbit(c_real.num, c_imag.num, mandel_ret))

\* C9 witness: mandelbrot_iterations(0, 0, 100) has returned 100
C9_Witness ==
    /\ mandel_pc = "done"
    /\ c_real = F64(0)
    /\ c_imag = F64(0)
    /\ max_iterations = 100
    /\ mandel_ret = 100

(***************************************************************************)
(* mandelbrot_set                                                          *)
(*                                                                         *)
(* `width` and `height` are u32, narrowed to 0..U32Max as in prime_sieve.  *)
(* The dimensions of the model are 0 and the powers of two, and the zooms  *)
(* are powers of two, so that the pixel coordinates are dyadic.            *)
(***************************************************************************)
\* the largest width and height of a call
MaxDim == 8
\* the largest max_iterations of a call of mandelbrot_set
MaxRasterIter == 2

Dims == {d \in 0..MaxDim : d = 0 \/ IsPow2(d)}
Zooms == {F64(1), F64(2)}
Centers == {F64(-1), F64(0)}

\* lines 230 and 231: the coordinate of pixel column (or row) p of `size`
PixelCoord(p, size, zm, center) ==
    DyAdd(DyDiv(DyDiv(DySub(F64(p), DyDiv(F64(size), F64(2))),
                      DyDiv(F64(size), F64(4))),
                zm),
          center)

\* lines 230-233: the count pushed for pixel (x, y)
RasterPixel(x, y) ==
    MandelbrotIterations(PixelCoord(x, width, zoom, center_x),
                         PixelCoord(y, height, zoom, center_y),
                         raster_max)

RasterInit ==
    /\ width = 0
    /\ height = 0
    /\ raster_max = 0
    /\ zoom = F64(1)
    /\ center_x = F64(0)
    /\ center_y = F64(0)
    /\ raster_x = 0
    /\ raster_y = 0
    /\ raster_cap = 0
    /\ raster_result = <<>>
    /\ raster_pc = "idle"
    /\ raster_fault = "none"
    /\ raster_ret = <<>>

\* lines 211-228: the call and Vec::with_capacity((width * height) as usize)
mandelbrot_set(w, h, max, zm, cx, cy) ==
    /\ raster_pc = "idle"
    /\ width' = w
    /\ height' = h
    /\ raster_max' = max
    /\ zoom' = zm
    /\ center_x' = cx
    /\ center_y' = cy
    /\ IF Overflows(w * h) /\ overflow_checks
       THEN /\ raster_pc' = "panicked"
            /\ raster_fault' = "attempt to multiply with overflow: width * height"
            /\ UNCHANGED <<raster_cap, raster_x, raster_y, raster_result>>
       ELSE /\ raster_cap' = U32Wrap(w * h)
            /\ raster_fault' = IF Overflows(w * h) THEN "wrapped: width * height"
                               ELSE "none"
            /\ raster_result' = <<>>
            /\ raster_y' = 0
            /\ raster_x' = 0
            /\ raster_pc' = "loop"
    /\ UNCHANGED <<raster_ret, not_raster>>

\* lines 229-235: one round of the inner loop: the count of pixel (x, y) is pushed
RasterPush ==
    /\ raster_pc = "loop"
    /\ raster_y < height
    /\ raster_x < width
    /\ raster_result' = Append(raster_result, RasterPixel(raster_x, raster_y))
    /\ raster_x' = raster_x + 1
    /\ UNCHANGED <<width, height, raster_max, zoom, center_x, center_y, raster_y,
                   raster_cap, raster_pc, raster_fault, raster_ret, not_raster>>

\* lines 228-229: the inner loop ends and the next row starts
RasterNextRow ==
    /\ raster_pc = "loop"
    /\ raster_y < height
    /\ raster_x >= width
    /\ raster_y' = raster_y + 1
    /\ raster_x' = 0
    /\ UNCHANGED <<width, height, raster_max, zoom, center_x, center_y, raster_result,
                   raster_cap, raster_pc, raster_fault, raster_ret, not_raster>>

\* lines 228, 238: the outer loop ends and `raster_result` is returned
RasterReturn ==
    /\ raster_pc = "loop"
    /\ raster_y >= height
    /\ raster_ret' = raster_result
    /\ raster_pc' = "done"
    /\ UNCHANGED <<width, height, raster_max, zoom, center_x, center_y, raster_x,
                   raster_y, raster_result, raster_cap, raster_fault, not_raster>>

(***************************************************************************)
(* Claims about mandelbrot_set, checked under SpecRaster.                  *)
(***************************************************************************)
\* the returned sequence has width * height entries, row-major: entry
\* y * width + x is the escape count of pixel (x, y)
RowMajor ==
    /\ Len(raster_ret) = width * height
    /\ \A x \in 0..(width - 1), y \in 0..(height - 1) :
         raster_ret[y * width + x + 1] =
             MandelbrotIterations(PixelCoord(x, width, zoom, center_x),
                                  PixelCoord(y, height, zoom, center_y),
                                  raster_max)
    /\ (width = 0 \/ height = 0) => raster_ret = <<>>

\* C6: for all width and height of the u32 (and all max_iterations, zoom and
\* center) the call returns a sequence of exactly width * height entries,
\* row-major, empty when width = 0 or height = 0.
C6_LengthAlways ==
    raster_pc \in {"done", "panicked"} =>
        /\ raster_pc = "done"
        /\ RowMajor

\* what does hold: a call that returns, returns width * height entries,
\* row-major, and a call whose width * height fits the u32 returns
RasterCorrectBelowOverflow ==
    /\ raster_pc = "done" => RowMajor
    /\ ~Overflows(width * height) => raster_pc # "panicked"

(***************************************************************************)
(* fibonacci_sequence                                                      *)
(***************************************************************************)
\* the largest n of a call (term 94 is the first whose sum passes 2^64)
MaxFib == 95

\* lines 324-326 with a sum that stops at u64::MAX instead of wrapping
fib_next_saturating(f, i) ==
    IF CarryOut(f[i], f[i - 1], 1, 0) > 0 THEN [k \in 1..8 |-> 255]
    ELSE wrapping_add(f[i], f[i - 1])

\* lines 324-326: the term that follows the i terms of f,
\* prev1.wrapping_add(prev2) with prev1 the last term and prev2 the one before
fib_next(f, i) == wrapping_add(f[i], f[i - 1])

FibInit ==
    /\ fib_n = 0
    /\ fib = <<>>
    /\ fib_i = 0
    /\ fib_pc = "idle"
    /\ fib_ret = <<>>

\* lines 307-321: the call, the early return and the first two terms
fibonacci_sequence(n) ==
    /\ fib_pc = "idle"
    /\ fib_n' = n
    /\ IF n = 0
       THEN /\ fib_ret' = <<>>
            /\ fib_pc' = "done"
            /\ UNCHANGED <<fib, fib_i>>
       ELSE /\ fib' = (IF n >= 1 THEN <<U64Word(0)>> ELSE <<>>)
                      \o (IF n >= 2 THEN <<U64Word(1)>> ELSE <<>>)
            /\ fib_i' = 2
            /\ fib_pc' = "loop"
            /\ UNCHANGED fib_ret
    /\ UNCHANGED not_fib

\* lines 323-328: one round of the loop over 2..n (fib_i terms are there)
FibPush ==
    /\ fib_pc = "loop"
    /\ fib_i < fib_n
    /\ fib' = Append(fib, fib_next(fib, fib_i))
    /\ fib_i' = fib_i + 1
    /\ UNCHANGED <<fib_n, fib_pc, fib_ret, not_fib>>

\* lines 323, 330: the range 2..n is exhausted and fib is returned
FibReturn ==
    /\ fib_pc = "loop"
    /\ fib_i >= fib_n
    /\ fib_ret' = fib
    /\ fib_pc' = "done"
    /\ UNCHANGED <<fib_n, fib, fib_i, not_fib>>

FibStep == FibPush \/ FibReturn

(***************************************************************************)
(* Claims about fibonacci_sequence, checked under SpecFib.                 *)
(***************************************************************************)
\* the four 16-bit limbs of a u64, least significant first
Limbs(a) == [k \in 1..4 |-> a[2 * k - 1] + 256 * a[2 * k]]

\* the limbs of (a + b) mod 2^64, from the limbs of a and b
RECURSIVE LimbSum(_, _, _, _)
LimbSum(x, y, k, carry) ==
    IF k > 4 THEN <<>>
    ELSE <<(x[k] + y[k] + carry) % 65536>>
         \o LimbSum(x, y, k + 1, (x[k] + y[k] + carry) \div 65536)

IsSumMod64(c, a, b) == Limbs(c) = LimbSum(Limbs(a), Limbs(b), 1, 0)

IsU64(a) == Len(a) = 8 /\ \A k \in 1..8 : a[k] \in 0..255

\* C5: the call returns exactly n terms, each a u64; the first is 0, the
\* second is 1, and every later term is the sum of the two before it
\* modulo 2^64; a running call can always go on (nothing faults), and
\* n = 0 returns the empty sequence.
C5_WrappingTerms ==
    /\ fib_pc = "loop" => ENABLED FibStep
    /\ fib_pc = "done" =>
         /\ Len(fib_ret) = fib_n
         /\ \A k \in 1..fib_n : IsU64(fib_ret[k])
         /\ fib_n >= 1 => fib_ret[1] = <<0, 0, 0, 0, 0, 0, 0, 0>>
         /\ fib_n >= 2 => fib_ret[2] = <<1, 0, 0, 0, 0, 0, 0, 0>>
         /\ \A k \in 3..fib_n : IsSumMod64(fib_ret[k], fib_ret[k - 1], fib_ret[k - 2])
         /\ fib_n = 10 =>
              [k \in 1..10 |-> fib_ret[k][1]] = <<0, 1, 1, 2, 3, 5, 8, 13, 21, 34>>

\* C5 witness: a call with n = 95 has returned, and its term 94, the first
\* to wrap, is 19740274219868223167 - 2^64 = 1293530146158671551
C5_Witness ==
    /\ fib_pc = "done"
    /\ fib_n = 95
    /\ fib_ret[95] = <<191, 246, 11, 132, 208, 138, 243, 17>>
    /\ ~WordLeq(fib_ret[94], fib_ret[95])

(***************************************************************************)
(* monte_carlo_pi                                                          *)
(***************************************************************************)
\* the largest `iterations` of a call of monte_carlo_pi
MaxMc == 8

\* the `iterations` of the calls: none, one, and enough for a point outside
\* the circle (the eighth point of the generator is the first outside)
McCounts == {0, 1, MaxMc}

\* line 153: the modulus 2147483647 = 2^31 - 1 of the draws
DrawModulus == 2147483647

\* line 145: let mut rng_state = 12345u64
rng_seed == U64Word(12345)

\* lines 152 and 155: the next state of the generator
lcg_next(s) == wrapping_add(wrapping_mul(s, U64Word(1103515245)), U64Word(12345))

\* a + b modulo m, for a and b in 0..m-1, without a sum above m
AddMod(a, b, m) == IF a >= m - b THEN a - (m - b) ELSE a + b

\* lines 153 and 156: rng_state % 2147483647.  With 2^31 = 1 modulo 2^31 - 1,
\* the state is congruent to the sum of its bits 0-30, 31-61 and 62-63.
Draw(s) ==
    LET low == s[1] + 256 * s[2] + 65536 * s[3] + 16777216 * (s[4] % 128)
        mid == (s[4] \div 128) + 2 * s[5] + 512 * s[6] + 131072 * s[7]
               + 33554432 * (s[8] % 64)
        top == s[8] \div 64
    IN AddMod(AddMod(low % DrawModulus, mid % DrawModulus, DrawModulus),
              top, DrawModulus)

\* lines 153 and 156: the draw r gives the coordinate r / 2147483647 * 2 - 1,
\* which is (2r - 2147483647) / 2147483647; this is its numerator
Coordinate(r) == r - (DrawModulus - r)

Abs(n) == IF n < 0 THEN 0 - n ELSE n
Square(n) == wrapping_mul(U64Word(Abs(n)), U64Word(Abs(n)))

\* line 169: x * x + y * y <= 1.0, on the numerators of x and y (the squares
\* are below 2^62, so nothing wraps).  The comparison is made exactly; the
\* f64 one agrees with it unless the point is within rounding of the circle.
InsideCircle(x, y) ==
    WordLeq(wrapping_add(Square(x), Square(y)), Square(DrawModulus))

McInit ==
    /\ mc_iterations = 0
    /\ mc_i = 0
    /\ inside_circle = 0
    /\ rng_state = U64Word(0)
    /\ mc_pc = "idle"
    /\ mc_ret = <<>>

(***************************************************************************)
(* hash_computation                                                        *)
(***************************************************************************)
\* the largest `iterations` of a call of hash_computation
MaxHashIter == 2

\* the texts of the calls, as their UTF-8 bytes: "", "a" and "ab"
HashTexts == {<<>>, <<97>>, <<97, 98>>}

\* line 337 with the hash kept from the call before
hash_seed_kept == hash

\* line 337: let mut hash = 0u32
hash_seed == U32Word(0)

\* lines 342-347: one byte mixed into the hash
\* (0x85ebca6b is the bytes 6b ca eb 85, 0xc2b2ae35 the bytes 35 ae b2 c2)
hash_mix(h, byte) ==
    LET h1 == wrapping_add(wrapping_mul(h, U32Word(31)), U32Word(byte))
        h2 == Xor(h1, Shr(h1, 16))
        h3 == wrapping_mul(h2, <<107, 202, 235, 133>>)
        h4 == Xor(h3, Shr(h3, 13))
        h5 == wrapping_mul(h4, <<53, 174, 178, 194>>)
    IN Xor(h5, Shr(h5, 16))

HashInit ==
    /\ hash_data = <<>>
    /\ hash_iterations = 0
    /\ hash = U32Word(0)
    /\ hash_round = 0
    /\ hash_pos = 0
    /\ hash_pc = "idle"
    /\ hash_ret = <<>>

(***************************************************************************)
(* The library called again and again: any sequence of calls of            *)
(* monte_carlo_pi and hash_computation, one at a time.  The locals of a    *)
(* call keep their last values after the return, as the memory does.       *)
(***************************************************************************)
NoneSeen == [kernel |-> "none", data |-> <<>>, n |-> 0, ret |-> <<>>,
             returns |-> 0, last |-> "none"]

SeenInit == seen = NoneSeen

NoCallRunning == mc_pc \in {"idle", "done"} /\ hash_pc \in {"idle", "done"}

\* history: a return is remembered (the first time, if `remember`), and the
\* returns after the remembered one are counted up to 2
Observe(kernel, data, n, ret, remember) ==
    seen' = IF seen.kernel = "none"
            THEN IF remember
                 THEN [kernel |-> kernel, data |-> data, n |-> n, ret |-> ret,
                       returns |-> 0, last |-> kernel]
                 ELSE seen
            ELSE [seen EXCEPT !.returns = IF @ < 2 THEN @ + 1 ELSE @,
                              !.last = kernel]

\* lines 133-148: the call, the early return for 0, and the locals
monte_carlo_pi(n) ==
    /\ NoCallRunning
    /\ mc_iterations' = n
    /\ IF n = 0
       THEN /\ mc_ret' = <<0, 1>>
            /\ mc_pc' = "done"
            /\ Observe("monte_carlo_pi", <<>>, n, <<0, 1>>, FALSE)
            /\ UNCHANGED <<mc_i, inside_circle, rng_state>>
       ELSE /\ inside_circle' = 0
            /\ rng_state' = rng_seed
            /\ mc_i' = 0
            /\ mc_pc' = "loop"
            /\ UNCHANGED <<mc_ret, seen>>
    /\ UNCHANGED <<hash_vars, not_calls>>

\* lines 150-182: one round of the loop: two draws and the test of the point
McLoop ==
    /\ mc_pc = "loop"
    /\ mc_i < mc_iterations
    /\ LET first == lcg_next(rng_state)
           second == lcg_next(first)
       IN /\ rng_state' = second
          /\ inside_circle' =
                IF InsideCircle(Coordinate(Draw(first)), Coordinate(Draw(second)))
                THEN inside_circle + 1 ELSE inside_circle
    /\ mc_i' = mc_i + 1
    /\ UNCHANGED <<mc_iterations, mc_pc, mc_ret, seen, hash_vars, not_calls>>

\* lines 184-191: the return of 4.0 * inside_circle / iterations, the f64
\* quotient of two integers, kept as the pair of them
McReturn(remember) ==
    /\ mc_pc = "loop"
    /\ mc_i >= mc_iterations
    /\ mc_ret' = <<4 * inside_circle, mc_iterations>>
    /\ mc_pc' = "done"
    /\ Observe("monte_carlo_pi", <<>>, mc_iterations,
               <<4 * inside_circle, mc_iterations>>, remember)
    /\ UNCHANGED <<mc_iterations, mc_i, inside_circle, rng_state, hash_vars, not_calls>>

\* lines 334-340: the call and the locals
hash_computation(data, iterations) ==
    /\ NoCallRunning
    /\ hash_data' = data
    /\ hash_iterations' = iterations
    /\ hash' = hash_seed
    /\ hash_round' = 0
    /\ hash_pos' = 1
    /\ hash_pc' = "loop"
    /\ UNCHANGED <<hash_ret, seen, mc_vars, not_calls>>

\* lines 341-348: one round of the inner loop
HashByte ==
    /\ hash_pc = "loop"
    /\ hash_round < hash_iterations
    /\ hash_pos <= Len(hash_data)
    /\ hash' = hash_mix(hash, hash_data[hash_pos])
    /\ hash_pos' = hash_pos + 1
    /\ UNCHANGED <<hash_data, hash_iterations, hash_round, hash_pc, hash_ret, seen,
                   mc_vars, not_calls>>

\* lines 340-341: the bytes are exhausted and the next round of the outer loop starts
HashNextRound ==
    /\ hash_pc = "loop"
    /\ hash_round < hash_iterations
    /\ hash_pos > Len(hash_data)
    /\ hash_round' = hash_round + 1
    /\ hash_pos' = 1
    /\ UNCHANGED <<hash_data, hash_iterations, hash, hash_pc, hash_ret, seen,
                   mc_vars, not_calls>>

\* lines 340, 351: the outer loop ends and the hash is returned
HashReturn(remember) ==
    /\ hash_pc = "loop"
    /\ hash_round >= hash_iterations
    /\ hash_ret' = hash
    /\ hash_pc' = "done"
    /\ Observe("hash_computation", hash_data, hash_iterations, hash, remember)
    /\ UNCHANGED <<hash_data, hash_iterations, hash, hash_round, hash_pos,
                   mc_vars, not_calls>>

(***************************************************************************)
(* Claims about the kernels called in sequence, checked under SpecCalls.   *)
(***************************************************************************)
\* C8: in any sequence of calls, a call that returns after a remembered call
\* of the same kernel with the same inputs returns what that call returned,
\* whatever ran before or between them; monte_carlo_pi enters its loop with
\* the generator at 12345 and hash_computation with the hash at 0.
C8_Deterministic ==
    /\ (mc_pc = "done" /\ seen.kernel = "monte_carlo_pi" /\ seen.n = mc_iterations)
           => mc_ret = seen.ret
    /\ (hash_pc = "done" /\ seen.kernel = "hash_computation"
        /\ seen.data = hash_data /\ seen.n = hash_iterations)
           => hash_ret = seen.ret
    /\ (mc_pc = "loop" /\ mc_i = 0) => rng_state = <<57, 48, 0, 0, 0, 0, 0, 0>>
    /\ (hash_pc = "loop" /\ hash_round = 0 /\ hash_pos = 1) => hash = <<0, 0, 0, 0>>

\* C8 witness: hash_computation("ab", 2) was remembered, two more calls have
\* returned since, a call of monte_carlo_pi that left the generator elsewhere
\* among the calls made, and the last return is again hash_computation("ab", 2)
C8_Witness ==
    /\ seen.kernel = "hash_computation"
    /\ seen.data = <<97, 98>>
    /\ seen.n = 2
    /\ seen.returns = 2
    /\ seen.last = "hash_computation"
    /\ hash_pc = "done" /\ hash_data = seen.data /\ hash_iterations = seen.n
    /\ hash_ret = <<94, 107, 27, 221>>
    /\ mc_pc = "done" /\ mc_iterations = 8
    /\ mc_ret = <<28, 8>>

(***************************************************************************)
(* The specifications: one per kernel, all from the same initial state.    *)
(***************************************************************************)
Init ==
    /\ overflow_checks \in BOOLEAN
    /\ SortInit
    /\ NumbersInit
    /\ SieveInit
    /\ MandelInit
    /\ RasterInit
    /\ FibInit
    /\ McInit
    /\ HashInit
    /\ SeenInit

SortNext ==
    \/ \E a \in Arrays : sort_array(a)
    \/ \E result \in CallResults : SortCompare(result)
    \/ SortReturn

SpecSort == Init /\ [][SortNext]_vars

NumbersNext ==
    \/ \E a \in NumArrays, asc \in BOOLEAN : sort_numbers(a, asc)
    \/ NumInsert
    \/ NumReturn

SpecNumbers == Init /\ [][NumbersNext]_vars

SieveNext ==
    \/ \E l \in U32 : prime_sieve(l)
    \/ SieveOuterPrime
    \/ SieveOuterSkip
    \/ SieveOuterEnd
    \/ SieveInnerMark
    \/ SieveInnerEnd
    \/ SieveCollect
    \/ SieveReturn

SpecSieve == Init /\ [][SieveNext]_vars

MandelNext ==
    \/ \E cr \in MandelPoints, ci \in MandelPoints, max \in 0..MaxIter :
         mandelbrot_iterations(cr, ci, max)
    \/ MandelLoop
    \/ MandelReturn

SpecMandel == Init /\ [][MandelNext]_vars

RasterNext ==
    \/ \E w \in Dims, h \in Dims, max \in 0..MaxRasterIter, zm \in Zooms,
          cx \in Centers, cy \in Centers :
         mandelbrot_set(w, h, max, zm, cx, cy)
    \/ RasterPush
    \/ RasterNextRow
    \/ RasterReturn

SpecRaster == Init /\ [][RasterNext]_vars

FibNext ==
    \/ \E n \in 0..MaxFib : fibonacci_sequence(n)
    \/ FibPush
    \/ FibReturn

SpecFib == Init /\ [][FibNext]_vars

CallsNext ==
    \/ \E n \in McCounts : monte_carlo_pi(n)
    \/ McLoop
    \/ \E remember \in BOOLEAN : McReturn(remember)
    \/ \E data \in HashTexts, iterations \in 0..MaxHashIter :
         hash_computation(data, iterations)
    \/ HashByte
    \/ HashNextRound
    \/ \E remember \in BOOLEAN : HashReturn(remember)

SpecCalls == Init /\ [][CallsNext]_vars
====
